---- MODULE Spec2Model ----
(***************************************************************************)
(* Model of the vulnerability report presenter (src/src/presenter.rs).     *)
(*                                                                         *)
(* The terminal output is modelled as the sequence of lines written by the *)
(* most recent call on the Presenter.  Every line is a record              *)
(*   [kind, color, status, content]                                        *)
(* where content is a sequence of strings (the pieces of the formatted     *)
(* text, in order).  A panic (expect / unwrap / map index) ends the call   *)
(* and the Presenter is not used afterwards.                               *)
(***************************************************************************)
EXTENDS Integers, Sequences, FiniteSets, TLC

VARIABLES displayed_packages, config, report, lockfile, op, result, output,
          dependency_graph

vars == <<displayed_packages, config, report, lockfile, op, result, output,
          dependency_graph>>

(* ------------------------------ bounds --------------------------------- *)
MaxVulns == 2
MaxWarnings == 1
MaxCount == 2

(* ------------------------------ values --------------------------------- *)
None == [some |-> FALSE]
Some(x) == [some |-> TRUE, val |-> x]

unwrap_or(opt, default) == IF opt.some THEN opt.val ELSE default

SeqsUpTo(S, n) == UNION {[1..k -> S] : k \in 0..n}

Names == {"smallvec"}
Versions == {"0.6.9", "1.0.0"}
Packages == [name : Names, version : Versions, source : {"registry"}]

release(package) == [name |-> package.name, version |-> package.version]

Releases == {release(p) : p \in Packages}

AdvisoryIds == {[kind |-> "RustSec", string |-> "RUSTSEC-2019-0009"],
                [kind |-> "Other", string |-> "ADV-1"]}

Advisories == [id : AdvisoryIds,
               url : {None, Some("https://example.com/adv")},
               date : {"2019-06-06"},
               title : {"Double-free"}]

Vulnerabilities == [advisory : Advisories,
                    package : Packages,
                    versions : [patched : {<<">= 0.6.10", ">= 1.0.1">>}]]

Warnings == [package : {"smallvec"},
             message : {"unmaintained"},
             url : {None, Some("https://example.com/warn")}]

(* Reports of the main specification: every shape of the report (found,   *)
(* count, warnings) over two vulnerabilities, one per release: one whose   *)
(* advisory has both URLs and one whose advisory has none.                 *)
SampleVulnerabilities ==
  {v \in Vulnerabilities :
     \/ /\ v.package.version = "0.6.9"
        /\ v.advisory.id.kind = "RustSec"
        /\ v.advisory.url.some
     \/ /\ v.package.version = "1.0.0"
        /\ v.advisory.id.kind = "Other"
        /\ ~v.advisory.url.some}

Reports == [vulnerabilities : [found : BOOLEAN,
                               count : 0..MaxCount,
                               list : SeqsUpTo(SampleVulnerabilities, MaxVulns)],
            warnings : SeqsUpTo(Warnings, MaxWarnings)]

(* Reports of the vulnerability specification: every combination of        *)
(* release, advisory id and advisory URL in the list, no warnings, and the *)
(* found and count fields that the list gives.                             *)
VulnReports ==
  {[vulnerabilities |-> [found |-> Len(l) > 0, count |-> Len(l), list |-> l],
    warnings |-> <<>>] : l \in SeqsUpTo(Vulnerabilities, MaxVulns)}

Lockfiles == [packages : SUBSET Packages, resolvable : {TRUE}]
             \cup {[packages |-> Packages, resolvable |-> FALSE]}

Configs == [format : {"Json", "Terminal"},
            quiet : BOOLEAN,
            show_tree : {None, Some(TRUE), Some(FALSE)}]

(* --------------------------- output lines ------------------------------ *)
Line(color, status, content) ==
  [kind |-> "status", color |-> color, status |-> status, content |-> content]

println == [kind |-> "blank", color |-> "none", status |-> "", content |-> <<>>]

status_ok(status, content) == Line("Green", status, content)

status_err(content) == Line("Red", "error:", content)

status_warn(content) == Line("Yellow", "warning:", content)

Digits == <<"0", "1", "2", "3", "4", "5", "6", "7", "8", "9">>

RECURSIVE to_string(_)
to_string(n) ==
  IF n < 10 THEN <<Digits[n + 1]>>
  ELSE to_string(n \div 10) \o <<Digits[(n % 10) + 1]>>

RECURSIVE join(_, _)
join(strs, sep) ==
  IF Len(strs) = 0 THEN <<>>
  ELSE IF Len(strs) = 1 THEN <<strs[1]>>
  ELSE <<strs[1], sep>> \o join(Tail(strs), sep)

(* ----------------------- external collaborators ------------------------ *)
id_url(id) ==
  IF id.kind = "RustSec"
  THEN Some(<<"https://rustsec.org/advisories/", id.string>>)
  ELSE None

(* mutant: a lockfile without a graph yields an empty graph, no error *)
DependencyGraph_new_lenient(lf) ==
  [ok |-> TRUE, built |-> TRUE,
   nodes |-> IF lf.resolvable
             THEN [r \in {release(p) : p \in lf.packages} |->
                     [name |-> r.name, version |-> r.version]]
             ELSE <<>>]

DependencyGraph_new(lf) ==
  IF lf.resolvable
  THEN [ok |-> TRUE, built |-> TRUE,
        nodes |-> [r \in {release(p) : p \in lf.packages} |->
                     [name |-> r.name, version |-> r.version]]]
  ELSE [ok |-> FALSE, built |-> TRUE, nodes |-> <<>>]

NotBuilt == [ok |-> FALSE, built |-> FALSE, nodes |-> <<>>]

print_node(node) ==
  <<[kind |-> "node", color |-> "none", status |-> "",
     content |-> <<node.name, node.version>>]>>

RECURSIVE json_list(_)
json_list(list) ==
  IF Len(list) = 0 THEN <<>>
  ELSE <<"{", "id", list[1].advisory.id.string,
         "url", IF list[1].advisory.url.some THEN list[1].advisory.url.val ELSE "null",
         "package", list[1].package.name, list[1].package.version, "}">>
       \o json_list(Tail(list))

RECURSIVE json_warnings(_)
json_warnings(ws) ==
  IF Len(ws) = 0 THEN <<>>
  ELSE <<"{", "package", ws[1].package, "message", ws[1].message,
         "url", IF ws[1].url.some THEN ws[1].url.val ELSE "null", "}">>
       \o json_warnings(Tail(ws))

to_writer(r) ==
  <<[kind |-> "json", color |-> "none", status |-> "",
     content |-> <<"found", IF r.vulnerabilities.found THEN "true" ELSE "false",
                   "count">> \o to_string(r.vulnerabilities.count)
                 \o <<"list", "[">> \o json_list(r.vulnerabilities.list)
                 \o <<"]", "warnings", "[">> \o json_warnings(r.warnings)
                 \o <<"]">>]>>

(* ------------------------------ Presenter ------------------------------ *)
Ret(displayed, out, panicked, graph) ==
  [displayed |-> displayed, out |-> out, panicked |-> panicked, graph |-> graph]

print_attr(color, attr, content) == <<Line(color, attr, content)>>

(* mutant: the displayed set is updated but not consulted *)
print_tree_no_dedup(self, color, package, graph) ==
  LET inserted == self.displayed_packages \cup {release(package)}
      header == Line(color, "Dependency tree:", <<"">>)
  IN  IF ~unwrap_or(self.config.show_tree, TRUE)
      THEN Ret(inserted, <<>>, FALSE, graph)
      ELSE IF release(package) \notin DOMAIN graph.nodes
           THEN Ret(inserted, <<header>>, TRUE, graph)
           ELSE Ret(inserted,
                    <<header>> \o print_node(graph.nodes[release(package)]),
                    FALSE, graph)

(* mutant: show_tree is not consulted *)
print_tree_ignore_flag(self, color, package, graph) ==
  IF release(package) \in self.displayed_packages
  THEN Ret(self.displayed_packages, <<>>, FALSE, graph)
  ELSE LET inserted == self.displayed_packages \cup {release(package)}
           header == Line(color, "Dependency tree:", <<"">>)
       IN  IF release(package) \notin DOMAIN graph.nodes
           THEN Ret(inserted, <<header>>, TRUE, graph)
           ELSE Ret(inserted,
                    <<header>> \o print_node(graph.nodes[release(package)]),
                    FALSE, graph)

(* mutant: a release without a graph node is skipped after the header *)
print_tree_lenient_lookup(self, color, package, graph) ==
  IF release(package) \in self.displayed_packages
  THEN Ret(self.displayed_packages, <<>>, FALSE, graph)
  ELSE LET inserted == self.displayed_packages \cup {release(package)}
           header == Line(color, "Dependency tree:", <<"">>)
       IN  IF ~unwrap_or(self.config.show_tree, TRUE)
           THEN Ret(inserted, <<>>, FALSE, graph)
           ELSE IF release(package) \notin DOMAIN graph.nodes
                THEN Ret(inserted, <<header>>, FALSE, graph)
                ELSE Ret(inserted,
                         <<header>> \o print_node(graph.nodes[release(package)]),
                         FALSE, graph)

(* mutant: show_tree is tested before the release is recorded *)
print_tree_flag_first(self, color, package, graph) ==
  IF ~unwrap_or(self.config.show_tree, TRUE)
  THEN Ret(self.displayed_packages, <<>>, FALSE, graph)
  ELSE IF release(package) \in self.displayed_packages
       THEN Ret(self.displayed_packages, <<>>, FALSE, graph)
       ELSE LET inserted == self.displayed_packages \cup {release(package)}
                header == Line(color, "Dependency tree:", <<"">>)
            IN  IF release(package) \notin DOMAIN graph.nodes
                THEN Ret(inserted, <<header>>, TRUE, graph)
                ELSE Ret(inserted,
                         <<header>> \o print_node(graph.nodes[release(package)]),
                         FALSE, graph)

print_tree(self, color, package, graph) ==
  IF release(package) \in self.displayed_packages
  THEN Ret(self.displayed_packages, <<>>, FALSE, graph)
  ELSE LET inserted == self.displayed_packages \cup {release(package)}
           header == Line(color, "Dependency tree:", <<"">>)
       IN  IF ~unwrap_or(self.config.show_tree, TRUE)
           THEN Ret(inserted, <<>>, FALSE, graph)
           ELSE IF release(package) \notin DOMAIN graph.nodes
                THEN Ret(inserted, <<header>>, TRUE, graph)
                ELSE Ret(inserted,
                         <<header>> \o print_node(graph.nodes[release(package)]),
                         FALSE, graph)

(* mutant: the advisory's own URL is never used *)
url_line_no_fallback(advisory) ==
  IF id_url(advisory.id).some
  THEN print_attr("Red", "URL:     ", id_url(advisory.id).val)
  ELSE <<>>

(* mutant: the two branches are swapped *)
url_line_advisory_first(advisory) ==
  IF advisory.url.some
  THEN print_attr("Red", "URL:     ", <<advisory.url.val>>)
  ELSE IF id_url(advisory.id).some
       THEN print_attr("Red", "URL:     ", id_url(advisory.id).val)
       ELSE <<>>

url_line(advisory) ==
  IF id_url(advisory.id).some
  THEN print_attr("Red", "URL:     ", id_url(advisory.id).val)
  ELSE IF advisory.url.some
       THEN print_attr("Red", "URL:     ", <<advisory.url.val>>)
       ELSE <<>>

(* mutant: the tree is printed before the detail block *)
print_vulnerability_tree_first(self, vulnerability, graph) ==
  LET advisory == vulnerability.advisory
      detail == <<println>>
                \o print_attr("Red", "ID:      ", <<advisory.id.string>>)
                \o print_attr("Red", "Crate:   ", <<vulnerability.package.name>>)
                \o print_attr("Red", "Version: ", <<vulnerability.package.version>>)
                \o print_attr("Red", "Date:    ", <<advisory.date>>)
                \o url_line(advisory)
                \o print_attr("Red", "Title:   ", <<advisory.title>>)
                \o print_attr("Red", "Solution: upgrade to",
                              join(vulnerability.versions.patched, " OR "))
      tree == print_tree(self, "Red", vulnerability.package, graph)
  IN  Ret(tree.displayed,
          IF tree.panicked THEN tree.out ELSE tree.out \o detail,
          tree.panicked, graph)

print_vulnerability(self, vulnerability, graph) ==
  LET advisory == vulnerability.advisory
      url == url_line(advisory)
      detail == <<println>>
                \o print_attr("Red", "ID:      ", <<advisory.id.string>>)
                \o print_attr("Red", "Crate:   ", <<vulnerability.package.name>>)
                \o print_attr("Red", "Version: ", <<vulnerability.package.version>>)
                \o print_attr("Red", "Date:    ", <<advisory.date>>)
                \o url
                \o print_attr("Red", "Title:   ", <<advisory.title>>)
                \o print_attr("Red", "Solution: upgrade to",
                              join(vulnerability.versions.patched, " OR "))
      tree == print_tree(self, "Red", vulnerability.package, graph)
  IN  Ret(tree.displayed, detail \o tree.out, tree.panicked, graph)

print_warning(warning) ==
  <<println>>
  \o print_attr("Yellow", "Crate:   ", <<warning.package>>)
  \o print_attr("Red", "Message: ", <<warning.message>>)
  \o (IF warning.url.some
      THEN print_attr("Yellow", "URL:     ", <<warning.url.val>>)
      ELSE <<>>)

RECURSIVE print_vulnerabilities(_, _, _)
print_vulnerabilities(self, list, graph) ==
  IF Len(list) = 0
  THEN Ret(self.displayed_packages, <<>>, FALSE, graph)
  ELSE LET first == print_vulnerability(self, list[1], graph)
       IN  IF first.panicked
           THEN first
           ELSE LET rest == print_vulnerabilities(
                              [self EXCEPT !.displayed_packages = first.displayed],
                              Tail(list), graph)
                IN  Ret(rest.displayed, first.out \o rest.out, rest.panicked, graph)

RECURSIVE print_warnings(_)
print_warnings(ws) ==
  IF Len(ws) = 0 THEN <<>>
  ELSE print_warning(ws[1]) \o print_warnings(Tail(ws))

(* mutant: the format test is inverted *)
is_json_inverted(self) == self.config.format # "Json"

is_json(self) == self.config.format = "Json"

status_line(r) ==
  IF r.vulnerabilities.found
  THEN <<status_err(<<"Vulnerable crates found!">>)>>
  ELSE <<status_ok("Success", <<"No vulnerable packages found">>)>>

warnings_section(r) ==
  IF Len(r.warnings) # 0
  THEN <<println,
         status_warn(<<"found informational advisories for dependencies">>)>>
       \o print_warnings(r.warnings)
  ELSE <<>>

(* mutant: the summary counts the list instead of reading the count field *)
summary_line_by_len(r) ==
  IF r.vulnerabilities.found
  THEN <<println,
         IF Len(r.vulnerabilities.list) = 1
         THEN status_err(<<"1 vulnerability found!">>)
         ELSE status_err(to_string(Len(r.vulnerabilities.list))
                         \o <<" vulnerabilities found!">>)>>
  ELSE <<>>

summary_line(r) ==
  IF r.vulnerabilities.found
  THEN <<println,
         IF r.vulnerabilities.count = 1
         THEN status_err(<<"1 vulnerability found!">>)
         ELSE status_err(to_string(r.vulnerabilities.count)
                         \o <<" vulnerabilities found!">>)>>
  ELSE <<>>

print_report(self, r, lf) ==
  IF is_json(self)
  THEN Ret(self.displayed_packages, to_writer(r), FALSE, NotBuilt)
  ELSE LET status == status_line(r)
           graph == DependencyGraph_new(lf)
       IN  IF ~graph.ok
           THEN Ret(self.displayed_packages, status, TRUE, graph)
           ELSE LET vs == print_vulnerabilities(self, r.vulnerabilities.list, graph)
                IN  IF vs.panicked
                    THEN Ret(vs.displayed, status \o vs.out, TRUE, graph)
                    ELSE Ret(vs.displayed,
                             status \o vs.out \o warnings_section(r) \o summary_line(r),
                             FALSE, graph)

before_report(self, lf) ==
  IF ~self.config.quiet
  THEN <<status_ok("Scanning",
                   <<"Cargo.lock", " for vulnerabilities (">>
                   \o to_string(Cardinality(lf.packages))
                   \o <<" crate dependencies)">>)>>
  ELSE <<>>

Self == [displayed_packages |-> displayed_packages, config |-> config]

(* ------------------------------ behaviour ------------------------------ *)
new(cfg) == [displayed_packages |-> {}, config |-> cfg]

InitWith(reports) ==
  /\ \E cfg \in Configs :
       /\ config = new(cfg).config
       /\ displayed_packages = new(cfg).displayed_packages
  /\ report \in reports
  /\ lockfile \in {[packages |-> {}, resolvable |-> TRUE]}
  /\ op = "new"
  /\ result = "returned"
  /\ output = <<>>
  /\ dependency_graph = NotBuilt

Init == InitWith(Reports)

InitVulns == InitWith(VulnReports)

BeforeReport ==
  /\ result = "returned"
  /\ \E lf \in Lockfiles :
       /\ lockfile' = lf
       /\ output' = before_report(Self, lf)
  /\ op' = "before_report"
  /\ dependency_graph' = NotBuilt
  /\ UNCHANGED <<displayed_packages, config, report, result>>

PrintReport ==
  /\ result = "returned"
  /\ \E lf \in Lockfiles :
       LET ret == print_report(Self, report, lf)
       IN  /\ lockfile' = lf
           /\ displayed_packages' = ret.displayed
           /\ output' = ret.out
           /\ result' = IF ret.panicked THEN "panicked" ELSE "returned"
           /\ dependency_graph' = ret.graph
  /\ op' = "print_report"
  /\ UNCHANGED <<config, report>>

Next == BeforeReport \/ PrintReport

Spec == Init /\ [][Next]_vars

SpecVulns == InitVulns /\ [][Next]_vars

TypeOK ==
  /\ displayed_packages \subseteq Releases
  /\ config \in Configs
  /\ report \in Reports \cup VulnReports
  /\ lockfile \in Lockfiles
  /\ op \in {"new", "before_report", "print_report"}
  /\ result \in {"returned", "panicked"}

(* ----------------------- reading the output back ----------------------- *)
Human == config.format # "Json"

TreeEnabled == config.show_tree # Some(FALSE)

HumanCall == op = "print_report" /\ Human

List == report.vulnerabilities.list

ReleaseOf(k) == [name |-> List[k].package.name, version |-> List[k].package.version]

IsHeader(e) == e.kind = "status" /\ e.status = "Dependency tree:"

IsNode(e) == e.kind = "node"

IsTreeLine(e) == IsHeader(e) \/ IsNode(e)

NotTreeLine(e) == ~IsTreeLine(e)

IsId(e) == e.kind = "status" /\ e.status = "ID:      "

IsVulnUrl(e) == e.kind = "status" /\ e.status = "URL:     " /\ e.color = "Red"

IsWarnCrate(e) == e.kind = "status" /\ e.status = "Crate:   " /\ e.color = "Yellow"

IsWarnHeader(e) == e.kind = "status" /\ e.status = "warning:"

IsStatusLine(e) ==
  /\ e.kind = "status"
  /\ \/ e.status = "Success"
     \/ e.status = "error:" /\ e.content = <<"Vulnerable crates found!">>

IsSummary(e) ==
  e.kind = "status" /\ e.status = "error:" /\ e.content # <<"Vulnerable crates found!">>

Positions(out, Test(_)) == {i \in 1..Len(out) : Test(out[i])}

(* position of the k-th line of out that satisfies Test *)
Kth(out, Test(_), k) ==
  CHOOSE i \in Positions(out, Test) :
    Cardinality({j \in Positions(out, Test) : j <= i}) = k

NumBlocks(out) == Cardinality(Positions(out, IsId))

(* the lines of out from the k-th "ID:" line up to the next "ID:" line *)
Block(out, k) ==
  SubSeq(out, Kth(out, IsId, k),
         IF k < NumBlocks(out) THEN Kth(out, IsId, k + 1) - 1 ELSE Len(out))

TreeOf(out, k) == SelectSeq(Block(out, k), IsTreeLine)

UrlsOf(out, k) == SelectSeq(Block(out, k), IsVulnUrl)

ExpectedTree(r) ==
  <<[kind |-> "status", color |-> "Red", status |-> "Dependency tree:",
     content |-> <<"">>],
    [kind |-> "node", color |-> "none", status |-> "",
     content |-> <<r.name, r.version>>]>>

UrlLine(content) ==
  [kind |-> "status", color |-> "Red", status |-> "URL:     ", content |-> content]

(* ------------------------------ C1 ------------------------------------- *)
(* C1: a human-mode print_report call with show_tree enabled or unset, on  *)
(* a Presenter whose displayed set is still empty, that returns, prints    *)
(* one detail block per vulnerability; the block of the first              *)
(* vulnerability referencing a release P carries the "Dependency tree:"    *)
(* header and the tree of P, and the block of every later vulnerability    *)
(* referencing P carries no header and no tree.                            *)
C1_Step ==
  (/\ displayed_packages = {}
   /\ op' = "print_report"
   /\ Human
   /\ TreeEnabled
   /\ result' = "returned")
  => /\ NumBlocks(output') = Len(List)
     /\ \A k \in 1..Len(List) :
          IF \A j \in 1..(k - 1) : ReleaseOf(j) # ReleaseOf(k)
          THEN TreeOf(output', k) = ExpectedTree(ReleaseOf(k))
          ELSE TreeOf(output', k) = <<>>

C1_TreeOncePerRelease == [][C1_Step]_vars

C1_Witness ==
  /\ HumanCall /\ TreeEnabled /\ result = "returned"
  /\ Len(List) >= 2
  /\ ReleaseOf(1) = ReleaseOf(2)
  /\ List[1].advisory # List[2].advisory
  /\ displayed_packages = {ReleaseOf(1)}
  /\ Cardinality(Positions(output, IsHeader)) = 1
  /\ TreeOf(output, 1) = ExpectedTree(ReleaseOf(1))

(* ------------------------------ C2 ------------------------------------- *)
(* C2: after print_report in Json format the output is one line, the       *)
(* serialized report; the call returned, also for a lockfile that has no   *)
(* dependency graph, and no dependency graph was built.                    *)
C2_JsonOnly ==
  (op = "print_report" /\ config.format = "Json")
  => /\ result = "returned"
     /\ Len(output) = 1
     /\ output[1].kind = "json"
     /\ output[1].content[2] = (IF report.vulnerabilities.found THEN "true" ELSE "false")
     /\ output = to_writer(report)
     /\ \A i \in 1..Len(output) :
          ~(IsStatusLine(output[i]) \/ IsId(output[i]) \/ IsTreeLine(output[i])
            \/ IsWarnHeader(output[i]) \/ IsSummary(output[i]))
     /\ ~dependency_graph.built

C2_Witness ==
  /\ op = "print_report" /\ config.format = "Json"
  /\ ~lockfile.resolvable
  /\ Len(List) > 0 /\ Len(report.warnings) > 0 /\ report.vulnerabilities.found
  /\ Len(output) = 1 /\ output[1].kind = "json"

(* ------------------------------ C3 ------------------------------------- *)
(* What the same call prints under the other setting of show_tree, from    *)
(* the Presenter state before the call.                                    *)
WithShowTree(flag) ==
  print_report([displayed_packages |-> displayed_packages,
                config |-> [config EXCEPT !.show_tree = Some(flag)]],
               report', lockfile')

(* C3 as stated: for every report and lockfile the output with show_tree   *)
(* disabled is the output with show_tree enabled with its tree headers and *)
(* tree bodies deleted.                                                    *)
C3_Original_Step ==
  (op' = "print_report" /\ Human)
  => IF TreeEnabled
     THEN SelectSeq(output', NotTreeLine) = WithShowTree(FALSE).out
     ELSE output' = SelectSeq(WithShowTree(TRUE).out, NotTreeLine)

IsPrefix(s, t) == Len(s) <= Len(t) /\ SubSeq(t, 1, Len(s)) = s

(* the call with show_tree enabled stops at a release without a graph node *)
StopsAtMissingNode(ret) == ret.panicked /\ ret.graph.ok

(* C3 amended: the two outputs are equal up to the tree blocks whenever    *)
(* the call with show_tree enabled does not stop at a release that has no  *)
(* graph node; when it does stop there, its output without the tree lines  *)
(* is a prefix of the output with show_tree disabled, which runs on.       *)
C3_Amended_Step ==
  (op' = "print_report" /\ Human)
  => IF TreeEnabled
     THEN LET dis == WithShowTree(FALSE)
          IN  /\ IsPrefix(SelectSeq(output', NotTreeLine), dis.out)
              /\ ~(result' = "panicked" /\ dependency_graph'.ok)
                   => SelectSeq(output', NotTreeLine) = dis.out
     ELSE LET en == WithShowTree(TRUE)
          IN  /\ IsPrefix(SelectSeq(en.out, NotTreeLine), output')
              /\ ~StopsAtMissingNode(en)
                   => output' = SelectSeq(en.out, NotTreeLine)
              /\ Positions(output', IsTreeLine) = {}

C4_UrlChoice ==
  HumanCall
  => /\ NumBlocks(output) <= Len(List)
     /\ result = "returned" => NumBlocks(output) = Len(List)
     /\ \A k \in 1..NumBlocks(output) :
          LET advisory == List[k].advisory
          IN  /\ Len(UrlsOf(output, k)) <= 1
              /\ IF advisory.id.kind = "RustSec"
                 THEN UrlsOf(output, k) =
                        <<UrlLine(<<"https://rustsec.org/advisories/",
                                    advisory.id.string>>)>>
                 ELSE IF advisory.url.some
                      THEN UrlsOf(output, k) = <<UrlLine(<<advisory.url.val>>)>>
                      ELSE UrlsOf(output, k) = <<>>

C4_Witness ==
  /\ HumanCall /\ result = "returned" /\ Len(List) = 2
  /\ List[1].advisory.id.kind = "RustSec" /\ List[1].advisory.url.some
  /\ List[2].advisory.id.kind = "Other" /\ List[2].advisory.url.some
  /\ Len(UrlsOf(output, 1)) = 1 /\ Len(UrlsOf(output, 2)) = 1

(* ------------------------------ C5 ------------------------------------- *)
(* C5 as stated: when the advisory has a URL of its own and its id has a   *)
(* derived URL, the advisory's own URL is the one printed.                 *)
C5_Original ==
  HumanCall
  => \A k \in 1..NumBlocks(output) :
       (List[k].advisory.url.some /\ id_url(List[k].advisory.id).some)
       => UrlsOf(output, k) = <<UrlLine(<<List[k].advisory.url.val>>)>>

(* C5 amended: when both URLs exist the one derived from the advisory id   *)
(* is printed; the advisory's own URL is printed only as the fallback,     *)
(* when the id has no derived URL.                                         *)
C5_DerivedUrlPreferred ==
  HumanCall
  => \A k \in 1..NumBlocks(output) :
       LET advisory == List[k].advisory
           own == UrlLine(<<advisory.url.val>>)
       IN  /\ (advisory.url.some /\ id_url(advisory.id).some)
              => /\ UrlsOf(output, k) = <<UrlLine(id_url(advisory.id).val)>>
                 /\ \A i \in 1..Len(Block(output, k)) : Block(output, k)[i] # own
           /\ (advisory.url.some /\ \E i \in 1..Len(Block(output, k)) :
                                      Block(output, k)[i] = own)
              => ~id_url(advisory.id).some

C5_Witness ==
  /\ HumanCall /\ Len(List) >= 1 /\ NumBlocks(output) >= 1
  /\ List[1].advisory.url.some /\ id_url(List[1].advisory.id).some
  /\ UrlsOf(output, 1) = <<UrlLine(id_url(List[1].advisory.id).val)>>

(* ------------------------------ C6 ------------------------------------- *)
Vulnerable == {ReleaseOf(k) : k \in 1..Len(List)}

C6_Amended_Step ==
  (op' = "print_report" /\ Human /\ dependency_graph'.ok)
  => /\ result' = "panicked"
          <=> /\ TreeEnabled
              /\ \E k \in 1..Len(List) :
                   /\ ReleaseOf(k) \notin DOMAIN dependency_graph'.nodes
                   /\ ReleaseOf(k) \notin displayed_packages
     /\ result' = "panicked" => IsHeader(output'[Len(output')])

C7_Step ==
  (op' = "print_report" /\ Human /\ ~lockfile'.resolvable)
  => /\ result' = "panicked"
     /\ Len(output') = 1
     /\ IsStatusLine(output'[1])
     /\ output'[1].color = (IF report.vulnerabilities.found THEN "Red" ELSE "Green")
     /\ displayed_packages' = displayed_packages

C7_InvalidLockfileAborts == [][C7_Step]_vars

C7_Witness ==
  /\ HumanCall /\ ~lockfile.resolvable /\ result = "panicked"
  /\ Len(List) > 0 /\ Len(report.warnings) > 0 /\ report.vulnerabilities.found
  /\ displayed_packages # {}
  /\ Len(output) = 1

(* ------------------------------ C8 ------------------------------------- *)
(* C8: a human-mode print_report that returns prints a summary line iff    *)
(* vulnerabilities.found, as its last line; it reads "1 vulnerability      *)
(* found!" iff vulnerabilities.count = 1 and "<count> vulnerabilities      *)
(* found!" otherwise, whatever the length of the list.                     *)
C8_Summary ==
  (HumanCall /\ result = "returned")
  => LET n == Cardinality(Positions(output, IsSummary))
         last == output[Len(output)]
         count == report.vulnerabilities.count
     IN  IF report.vulnerabilities.found
         THEN /\ n = 1
              /\ IsSummary(last)
              /\ output[Len(output) - 1].kind = "blank"
              /\ (last.content = <<"1 vulnerability found!">>) <=> (count = 1)
              /\ count # 1
                   => last.content = to_string(count) \o <<" vulnerabilities found!">>
         ELSE n = 0

C8_Witness ==
  /\ HumanCall /\ result = "returned"
  /\ report.vulnerabilities.found
  /\ report.vulnerabilities.count = 1
  /\ Len(List) = 2
  /\ output[Len(output)].content = <<"1 vulnerability found!">>

(* ------------------------------ C9 ------------------------------------- *)
IsBlank(e) == e.kind = "blank"

IsSolution(e) == e.kind = "status" /\ e.status = "Solution: upgrade to"

(* the part of the report a non-blank line belongs to *)
Phase(e) ==
  IF IsStatusLine(e) THEN 0
  ELSE IF IsWarnHeader(e) THEN 2
  ELSE IF IsSummary(e) THEN 4
  ELSE IF e.kind = "status" /\ (e.color = "Yellow" \/ e.status = "Message: ") THEN 3
  ELSE 1

C10_Step ==
  /\ displayed_packages \subseteq displayed_packages'
  /\ op' = "before_report" => displayed_packages' = displayed_packages
  /\ (op' = "print_report" /\ ~Human) => displayed_packages' = displayed_packages
  /\ (op' = "print_report" /\ Human)
     => /\ displayed_packages' \subseteq displayed_packages \cup Vulnerable
        /\ result' = "returned"
             => displayed_packages' = displayed_packages \cup Vulnerable
        /\ \A k \in 1..NumBlocks(output') :
             ReleaseOf(k) \in displayed_packages => TreeOf(output', k) = <<>>
        /\ \A i \in 1..Len(output') :
             IsNode(output'[i])
             => [name |-> output'[i].content[1], version |-> output'[i].content[2]]
                  \notin displayed_packages

C10_DisplayedSetGrows == (displayed_packages = {}) /\ [][C10_Step]_vars

C10_Witness ==
  /\ HumanCall /\ TreeEnabled /\ result = "returned"
  /\ Len(List) = 2 /\ ReleaseOf(1) # ReleaseOf(2)
  /\ Len(report.warnings) > 0
  /\ displayed_packages = Vulnerable
  /\ Vulnerable \subseteq DOMAIN dependency_graph.nodes
  /\ Positions(output, IsTreeLine) = {}
====
